---- MODULE Spec2Model ----
(***************************************************************************)
(* A model of Dataset-Cleaner (src/cleaner.py): the CSV loader, the        *)
(* per-column issue detector and the per-column cleaning pass of main.     *)
(*                                                                         *)
(* A table is kept column-wise, as pandas keeps it: an index (the labels   *)
(* of the surviving rows), the ordered column names, and one sequence of   *)
(* cells per column.  A cell is a tuple:                                   *)
(*     <<>>            a missing value (NaN)                               *)
(*     <<n, d>>        the number n/d, d > 0, in lowest terms              *)
(*     <<s, n, d>>     a standardized number, s * sqrt(n/d), s in -1..1    *)
(*     <<"a">>         a string                                            *)
(*     <<TRUE>>        a boolean                                           *)
(* Numbers are exact rationals, so that means, interpolated quantiles and  *)
(* the IQR fences are computed as the code computes them.                  *)
(*                                                                         *)
(* Library behaviour assumed: pandas without copy-on-write (the chained    *)
(* df[c].fillna(..., inplace=True) reaches the frame), NaN-skipping        *)
(* reductions, linear-interpolation quantiles, and a LabelEncoder that     *)
(* gives NaN the last code.                                                *)
(***************************************************************************)
EXTENDS Integers, Sequences, FiniteSets, TLC

VARIABLES
    df,         \* the table main holds (cleaner.py:121, reassigned at :142)
    loaded,     \* the table as load_data returned it
    columns,    \* df.columns as enumerated when the loop of :141 starts
    idx,        \* position of the for loop of :141 in columns
    pc,         \* "loading", "cleaning", "exported", or "crashed" (uncaught exception)
    prev,       \* the table passed to the last clean_column call
    options,    \* the multiselect of the last call, in selection order
    choice,     \* the sub-method widgets of the last call
    applied,    \* the blocks the last call ran, each with the column read and left
    warned,     \* the last call issued st.warning
    upload,     \* the uploaded byte stream
    pos,        \* read position of the uploaded stream
    attempts,   \* the encodings load_data has tried
    result      \* what load_data returned (or that it raised)

vars == <<df, loaded, columns, idx, pc, prev, options, choice, applied, warned,
          upload, pos, attempts, result>>

cleanVars == <<df, loaded, columns, idx, pc, prev, options, choice, applied, warned>>
loadVars == <<upload, pos, attempts, result>>

-----------------------------------------------------------------------------
(* Bounds of the model.                                                    *)

MaxRows == 4        \* rows of a one-column table
MaxWideRows == 2    \* rows of a two-column table
MaxBytes == 4       \* bytes of an uploaded stream

NumVals == {0, 1}            \* numbers a loaded numeric cell may hold
StrVals == <<"a", "b", "c">> \* strings a loaded text cell may hold, sorted

-----------------------------------------------------------------------------
(* Exact rational arithmetic for the float64 cells.                        *)

NA == <<>>

Abs(x) == IF x < 0 THEN -x ELSE x

RECURSIVE GCD(_, _)
GCD(a, b) == IF b = 0 THEN a ELSE GCD(b, a % b)

Norm(n, d) == LET g == GCD(Abs(n), d) IN <<n \div g, d \div g>>

RAdd(a, b) == Norm(a[1] * b[2] + b[1] * a[2], a[2] * b[2])
RSub(a, b) == Norm(a[1] * b[2] - b[1] * a[2], a[2] * b[2])
RMul(a, b) == Norm(a[1] * b[1], a[2] * b[2])
RLess(a, b) == a[1] * b[2] < b[1] * a[2]
RLeq(a, b) == a[1] * b[2] <= b[1] * a[2]

Range(s) == {s[i] : i \in DOMAIN s}

\* The elements of s at the positions in keep, in order.
SelectPos(s, keep) ==
    LET F[i \in 0..Len(s)] ==
            IF i = 0 THEN <<>>
            ELSE IF i \in keep THEN Append(F[i - 1], s[i]) ELSE F[i - 1]
    IN F[Len(s)]

NonNA(col) == SelectSeq(col, LAMBDA x : x # NA)

RECURSIVE RSum(_)
RSum(s) == IF s = <<>> THEN <<0, 1>> ELSE RAdd(Head(s), RSum(Tail(s)))

\* Series.isna().sum()
isna_sum(col) == Cardinality({i \in DOMAIN col : col[i] = NA})

\* Series.mean(): NaN on a column with no value.
mean(col) ==
    LET v == NonNA(col)
    IN IF v = <<>> THEN NA ELSE RMul(RSum(v), <<1, Len(v)>>)

\* Series.quantile(q/4), linear interpolation over the sorted values present.
quantile(col, q) ==
    LET v == SortSeq(NonNA(col), RLess)
        h == (Len(v) - 1) * q
        i == h \div 4
        r == h % 4
    IN IF v = <<>> THEN NA
       ELSE IF r = 0 THEN v[i + 1]
       ELSE RAdd(v[i + 1], RMul(<<r, 4>>, RSub(v[i + 2], v[i + 1])))

\* Series.median()
median(col) == quantile(col, 2)

\* Series.mode(): the most frequent values present, sorted.
mode(col) ==
    LET v == NonNA(col)
        count(x) == Cardinality({i \in DOMAIN v : v[i] = x})
        modal == {x \in Range(v) : \A y \in Range(v) : count(y) <= count(x)}
        asSeq == SortSeq(SelectSeq(SelectPos(v, {i \in DOMAIN v :
                                       \A j \in 1..(i - 1) : v[j] # v[i]}),
                                   LAMBDA x : x \in modal), RLess)
    IN asSeq

\* lower and upper fence q1 - 1.5*iqr, q3 + 1.5*iqr; NaN when there is no value.
Fences(col) ==
    LET q1 == quantile(col, 1)
        q3 == quantile(col, 3)
    IN IF q1 = NA THEN [lower |-> NA, upper |-> NA]
       ELSE LET iqr == RSub(q3, q1)
            IN [lower |-> RSub(q1, RMul(<<3, 2>>, iqr)),
                upper |-> RAdd(q3, RMul(<<3, 2>>, iqr))]

-----------------------------------------------------------------------------
(* The table and the pandas operations clean_column uses on it.            *)

is_numeric_dtype(d) == d \in {"numeric", "bool"}
is_text_dtype(d) == d \in {"object", "category"}

Rows(t) == Len(t.index)

\* A variant of take that filters the index and the first column only.
take_first_column(t, keep) ==
    [t EXCEPT !.index = SelectPos(t.index, keep),
              !.data = [n \in DOMAIN t.data |->
                          IF n = t.columns[1] THEN SelectPos(t.data[n], keep)
                          ELSE t.data[n]]]

\* The table with only the rows at the positions in keep: what boolean
\* indexing, dropna and drop_duplicates do to every column and to the index.
take(t, keep) ==
    [t EXCEPT !.index = SelectPos(t.index, keep),
              !.data = [n \in DOMAIN t.data |-> SelectPos(t.data[n], keep)]]

\* df[c] = col
setcol(t, c, col, d) ==
    [t EXCEPT !.data = [@ EXCEPT ![c] = col], !.dtype = [@ EXCEPT ![c] = d]]

\* Series.fillna(v): a NaN fill value fills nothing.
fillna(col, v) == [i \in DOMAIN col |-> IF col[i] = NA THEN v ELSE col[i]]

\* df.dropna(subset=[c])
dropna(t, c) == take(t, {i \in DOMAIN t.data[c] : t.data[c][i] # NA})

\* A variant of duplicated that marks every occurrence but the last (keep="last").
duplicated_keep_last(t, c) ==
    {i \in DOMAIN t.data[c] :
        \E j \in (i + 1)..Len(t.data[c]) : t.data[c][j] = t.data[c][i]}

\* df.duplicated(subset=[c]): the rows repeating an earlier cell (NaN equals NaN).
duplicated(t, c) ==
    {i \in DOMAIN t.data[c] : \E j \in 1..(i - 1) : t.data[c][j] = t.data[c][i]}

\* df.drop_duplicates(subset=[c])
drop_duplicates(t, c) == take(t, DOMAIN t.data[c] \ duplicated(t, c))

\* (col >= lower) & (col <= upper): every comparison with NaN is False.
within(col, f) ==
    {i \in DOMAIN col :
        /\ col[i] # NA
        /\ f.lower # NA
        /\ RLeq(f.lower, col[i])
        /\ RLeq(col[i], f.upper)}

\* (col < lower) | (col > upper), the mask of detect_issues.
outside(col, f) ==
    {i \in DOMAIN col :
        /\ col[i] # NA
        /\ f.lower # NA
        /\ (RLess(col[i], f.lower) \/ RLess(f.upper, col[i]))}

\* A variant of clip that applies the upper threshold only.
clip_upper(col, f) ==
    [i \in DOMAIN col |->
        IF col[i] = NA \/ f.lower = NA THEN col[i]
        ELSE IF RLess(f.upper, col[i]) THEN f.upper
        ELSE col[i]]

\* Series.clip(lower, upper): NaN cells stay, NaN thresholds clip nothing.
clip(col, f) ==
    [i \in DOMAIN col |->
        IF col[i] = NA \/ f.lower = NA THEN col[i]
        ELSE IF RLess(col[i], f.lower) THEN f.lower
        ELSE IF RLess(f.upper, col[i]) THEN f.upper
        ELSE col[i]]

\* (col - col.mean()) / col.std(), std with ddof = 1: NaN throughout when the
\* column has fewer than two values or no spread (0/0).
standardize(col) ==
    LET v == NonNA(col)
        n == Len(v)
        m == mean(col)
        sq(x) == RMul(RSub(x, m), RSub(x, m))
        ss == RSum([i \in DOMAIN v |-> sq(v[i])])
        var == RMul(ss, <<1, n - 1>>)
        sign(x) == IF x[1] < 0 THEN -1 ELSE IF x[1] = 0 THEN 0 ELSE 1
        z(x) == LET z2 == Norm(sq(x)[1] * var[2], sq(x)[2] * var[1])
                IN <<sign(RSub(x, m)), z2[1], z2[2]>>
    IN [i \in DOMAIN col |->
          IF col[i] = NA \/ n < 2 THEN NA
          ELSE IF ss[1] = 0 THEN NA
          ELSE z(col[i])]

\* The distinct strings of the column, sorted: the categories of get_dummies
\* and the classes of LabelEncoder.
levels(col) == SelectSeq(StrVals, LAMBDA s : <<s>> \in Range(col))

\* A variant of get_dummies that keeps every level (drop_first=False).
get_dummies_all(t, c) ==
    LET col == t.data[c]
        kept == SelectSeq(StrVals, LAMBDA s : <<s>> \in Range(col))
        names == [i \in DOMAIN kept |-> c \o "_" \o kept[i]]
        level(n) == kept[CHOOSE i \in DOMAIN kept : names[i] = n]
        rest == SelectSeq(t.columns, LAMBDA n : n # c)
        all == Range(rest) \cup Range(names)
    IN [index |-> t.index,
        columns |-> rest \o names,
        dtype |-> [n \in all |-> IF n \in Range(rest) THEN t.dtype[n] ELSE "bool"],
        data |-> [n \in all |->
                    IF n \in Range(rest) THEN t.data[n]
                    ELSE [i \in DOMAIN col |-> <<col[i] = <<level(n)>>>>]]]

\* pd.get_dummies(df, columns=[c], drop_first=True): column c leaves, and one
\* boolean column c_<level> per level but the first is appended.
get_dummies(t, c) ==
    LET col == t.data[c]
        lv == levels(col)
        kept == IF lv = <<>> THEN <<>> ELSE Tail(lv)
        names == [i \in DOMAIN kept |-> c \o "_" \o kept[i]]
        level(n) == kept[CHOOSE i \in DOMAIN kept : names[i] = n]
        rest == SelectSeq(t.columns, LAMBDA n : n # c)
        all == Range(rest) \cup Range(names)
    IN [index |-> t.index,
        columns |-> rest \o names,
        dtype |-> [n \in all |-> IF n \in Range(rest) THEN t.dtype[n] ELSE "bool"],
        data |-> [n \in all |->
                    IF n \in Range(rest) THEN t.data[n]
                    ELSE [i \in DOMAIN col |-> <<col[i] = <<level(n)>>>>]]]

\* LabelEncoder().fit_transform(col): the code of a string is its rank among
\* the sorted classes; NaN, when present, is the last class.
fit_transform(col) ==
    LET lv == levels(col)
        code(s) == (CHOOSE i \in DOMAIN lv : lv[i] = s) - 1
    IN [i \in DOMAIN col |->
          IF col[i] = NA THEN <<Len(lv), 1>> ELSE <<code(col[i][1]), 1>>]

-----------------------------------------------------------------------------
(* detect_issues and get_cleaning_methods.                                 *)

\* The outlier count of detect_issues for column c (0 for a non-numeric one).
outlier_count(t, c) ==
    IF is_numeric_dtype(t.dtype[c])
    THEN Cardinality(outside(t.data[c], Fences(t.data[c])))
    ELSE 0

\* detect_issues(df)[c] as the three counts behind the issue strings; a count
\* of 0 emits no string.
detect_issues(t) ==
    [c \in Range(t.columns) |->
        [missing |-> isna_sum(t.data[c]),
         duplicates |-> Cardinality(duplicated(t, c)),
         outliers |-> outlier_count(t, c)]]

get_cleaning_methods(d) ==
    <<"Handle Missing Values", "Remove Duplicates">>
    \o (IF is_numeric_dtype(d) THEN <<"Handle Outliers", "Standardize Data">> ELSE <<>>)
    \o (IF is_text_dtype(d) THEN <<"Encode Categorical Data">> ELSE <<>>)

-----------------------------------------------------------------------------
(* clean_column: one operator per if-block, then the blocks in sequence.   *)

Ok(t) == [df |-> t, raised |-> FALSE, warned |-> FALSE]
Raise(t) == [df |-> t, raised |-> TRUE, warned |-> FALSE]
Warn(t) == [df |-> t, raised |-> FALSE, warned |-> TRUE]

MissingMethods == <<"Impute with Mean", "Impute with Median", "Impute with Mode", "Drop">>
OutlierMethods == <<"Remove Outliers", "Cap Outliers">>
EncodingMethods == <<"One-Hot Encoding", "Label Encoding">>

\* cleaner.py:48-60.  mode()[0] raises on a column with no value.
HandleMissingValues(t, c, method) ==
    IF is_numeric_dtype(t.dtype[c])
    THEN CASE method = "Impute with Mean" ->
                Ok(setcol(t, c, fillna(t.data[c], mean(t.data[c])), t.dtype[c]))
           [] method = "Impute with Median" ->
                Ok(setcol(t, c, fillna(t.data[c], median(t.data[c])), t.dtype[c]))
           [] method = "Impute with Mode" ->
                IF mode(t.data[c]) = <<>> THEN Raise(t)
                ELSE Ok(setcol(t, c, fillna(t.data[c], mode(t.data[c])[1]), t.dtype[c]))
           [] method = "Drop" -> Ok(dropna(t, c))
    ELSE Warn(t)

\* cleaner.py:62-63
RemoveDuplicates(t, c) == Ok(drop_duplicates(t, c))

\* cleaner.py:67-71
RemoveOutliers(t, c) == take(t, within(t.data[c], Fences(t.data[c])))

\* cleaner.py:72-76
CapOutliers(t, c) == setcol(t, c, clip(t.data[c], Fences(t.data[c])), t.dtype[c])

\* cleaner.py:65-76
HandleOutliers(t, c, method) ==
    IF method = "Remove Outliers" THEN Ok(RemoveOutliers(t, c))
    ELSE Ok(CapOutliers(t, c))

\* cleaner.py:78-79
StandardizeData(t, c) == Ok(setcol(t, c, standardize(t.data[c]), "numeric"))

\* cleaner.py:81-91
EncodeCategoricalData(t, c, method) ==
    IF method = "One-Hot Encoding" THEN Ok(get_dummies(t, c))
    ELSE Ok(setcol(t, c, fit_transform(t.data[c]), "numeric"))

\* The condition of each if-block: the method is selected and, for three of
\* them, the column has the dtype.
Selected(stage, t, c, opts) ==
    /\ stage \in Range(opts)
    /\ stage \in {"Handle Outliers", "Standardize Data"} => is_numeric_dtype(t.dtype[c])
    /\ stage = "Encode Categorical Data" => is_text_dtype(t.dtype[c])

RunStage(stage, t, c, ch) ==
    CASE stage = "Handle Missing Values" -> HandleMissingValues(t, c, ch.missing)
      [] stage = "Remove Duplicates" -> RemoveDuplicates(t, c)
      [] stage = "Handle Outliers" -> HandleOutliers(t, c, ch.outliers)
      [] stage = "Standardize Data" -> StandardizeData(t, c)
      [] stage = "Encode Categorical Data" -> EncodeCategoricalData(t, c, ch.encoding)

\* A variant of StageOrder that runs the blocks in the order of the selection.
StageOrderAsSelected(opts) == opts

\* The order in which clean_column's if-blocks stand (cleaner.py:48, 62, 65,
\* 78, 81), whatever the order of the selection.
StageOrder(opts) ==
    <<"Handle Missing Values", "Remove Duplicates", "Handle Outliers",
      "Standardize Data", "Encode Categorical Data">>

\* clean_column(df, column_name, column_index) with the widgets' values opts
\* and ch.  df[column_name] on a column that is gone raises KeyError.
\* applied lists the blocks that ran, each with the column it read and the
\* column it left (empty when the block removed the column).
clean_column(t, c, opts, ch) ==
    LET order == StageOrder(opts)
        F[k \in 0..Len(order)] ==
            IF k = 0
            THEN [df |-> t, raised |-> FALSE, warned |-> FALSE, applied |-> <<>>]
            ELSE LET s == F[k - 1]
                 IN IF s.raised \/ order[k] \notin Range(opts) THEN s
                    ELSE IF c \notin Range(s.df.columns) THEN [s EXCEPT !.raised = TRUE]
                    ELSE IF ~Selected(order[k], s.df, c, opts) THEN s
                    ELSE LET r == RunStage(order[k], s.df, c, ch)
                         IN [df |-> r.df,
                             raised |-> r.raised,
                             warned |-> s.warned \/ r.warned,
                             applied |-> Append(s.applied,
                                                [stage |-> order[k],
                                                 read |-> s.df.data[c],
                                                 wrote |-> IF c \in DOMAIN r.df.data
                                                           THEN r.df.data[c]
                                                           ELSE <<>>])]
    IN F[Len(order)]

-----------------------------------------------------------------------------
(* The per-column cleaning pass of main (cleaner.py:140-156).              *)

NumCells == {NA} \cup {<<v, 1>> : v \in NumVals}
StrCells == {NA} \cup {<<StrVals[i]>> : i \in DOMAIN StrVals}

\* A text column read_csv can produce: an all-empty column is read as float64,
\* so a text column with rows holds at least one string.
TextColumns(n) == {col \in [1..n -> StrCells] : n = 0 \/ \E i \in 1..n : col[i] # NA}
NumColumns(n) == [1..n -> NumCells]

\* The cells of the two-column tables.
WideNumColumns(n) == [1..n -> {NA, <<0, 1>>}]
WideTextColumns(n) == {col \in TextColumns(n) : <<StrVals[Len(StrVals)]>> \notin Range(col)}

RangeIndex(n) == [i \in 1..n |-> i - 1]

\* The tables load_data can return within the bounds: one numeric column A,
\* one text column B (possibly with a header and no row), or both.
Tables ==
    {[index |-> RangeIndex(n), columns |-> <<"A">>,
      dtype |-> [x \in {"A"} |-> "numeric"],
      data |-> [x \in {"A"} |-> a]] : <<n, a>> \in UNION {{n} \X NumColumns(n) : n \in 1..MaxRows}}
    \cup
    {[index |-> RangeIndex(n), columns |-> <<"B">>,
      dtype |-> [x \in {"B"} |-> "object"],
      data |-> [x \in {"B"} |-> b]] : <<n, b>> \in UNION {{n} \X TextColumns(n) : n \in 0..MaxRows}}
    \cup
    {[index |-> RangeIndex(n), columns |-> <<"A", "B">>,
      dtype |-> [x \in {"A", "B"} |-> IF x = "A" THEN "numeric" ELSE "object"],
      data |-> [x \in {"A", "B"} |-> IF x = "A" THEN ab[1] ELSE ab[2]]] :
        <<n, ab>> \in UNION {{n} \X (WideNumColumns(n) \X WideTextColumns(n)) :
                               n \in 1..MaxWideRows}}

\* The subsequence of s made of the elements of S.
Restrict(s, S) == SelectSeq(s, LAMBDA x : x \in S)

Reverse(s) == [i \in DOMAIN s |-> s[Len(s) + 1 - i]]

\* What st.multiselect can return: some of the methods offered for the dtype,
\* in the order the user picked them.  Two orders are explored for each
\* subset: the order of the menu and its reverse.
Selections(d) ==
    LET offered == get_cleaning_methods(d)
    IN UNION {{Restrict(offered, S), Reverse(Restrict(offered, S))} :
                 S \in SUBSET Range(offered)}

NoChoice == "None"

\* The radio and selectbox values; a widget that is not rendered has none.
Choices(opts, d) ==
    [missing : IF "Handle Missing Values" \in Range(opts)
               THEN Range(MissingMethods) ELSE {NoChoice},
     outliers : IF "Handle Outliers" \in Range(opts) /\ is_numeric_dtype(d)
                THEN Range(OutlierMethods) ELSE {NoChoice},
     encoding : IF "Encode Categorical Data" \in Range(opts) /\ is_text_dtype(d)
                THEN Range(EncodingMethods) ELSE {NoChoice}]

NoResult == [status |-> "pending", encoding |-> "", text |-> <<>>]

Init ==
    /\ df \in Tables
    /\ loaded = df
    /\ columns = df.columns
    /\ idx = 1
    /\ pc = "cleaning"
    /\ prev = df
    /\ options = <<>>
    /\ choice = [missing |-> NoChoice, outliers |-> NoChoice, encoding |-> NoChoice]
    /\ applied = <<>>
    /\ warned = FALSE
    /\ upload = <<>>
    /\ pos = 0
    /\ attempts = <<>>
    /\ result = NoResult

\* One iteration of the loop of cleaner.py:141-142.  An exception raised in
\* clean_column is caught nowhere: it ends the run of main.
CleanColumn ==
    /\ pc = "cleaning"
    /\ idx <= Len(columns)
    /\ LET c == columns[idx]
       IN \E opts \in Selections(df.dtype[c]) :
            \E ch \in Choices(opts, df.dtype[c]) :
               \E r \in {clean_column(df, c, opts, ch)} :
                  /\ prev' = df
                  /\ options' = opts
                  /\ choice' = ch
                  /\ applied' = r.applied
                  /\ warned' = r.warned
                  /\ df' = r.df
                  /\ pc' = IF r.raised THEN "crashed" ELSE pc
                  /\ idx' = IF r.raised THEN idx ELSE idx + 1
    /\ UNCHANGED <<loaded, columns, loadVars>>

\* cleaner.py:144-156: the preview and the download of the cleaned table.
Export ==
    /\ pc = "cleaning"
    /\ idx > Len(columns)
    /\ pc' = "exported"
    /\ UNCHANGED <<df, loaded, columns, idx, prev, options, choice, applied, warned,
                   loadVars>>

Next == CleanColumn \/ Export

Spec == Init /\ [][Next]_vars

-----------------------------------------------------------------------------
(* load_data (cleaner.py:103-112).  The uploaded file is a byte stream     *)
(* with a read position; read_csv reads from the position on and leaves    *)
(* the position where its reader stopped.  Text is a sequence of code      *)
(* points, and the table read_csv builds is stood for by the text it       *)
(* parsed.                                                                 *)

encodings == <<"utf-8", "latin1", "ISO-8859-1", "cp1252">>

\* Bytes of the uploaded streams explored: A, line feed, and C3 A9 E9, which
\* make a two-byte UTF-8 sequence, or e-acute in the single-byte encodings.
Bytes == {65, 10, 195, 169, 233}

Cont(b) == b >= 128 /\ b <= 191

\* Length of the UTF-8 sequence a lead byte starts; 0 for a byte that starts none.
Utf8Len(b) ==
    IF b < 128 THEN 1
    ELSE IF b >= 194 /\ b <= 223 THEN 2
    ELSE IF b >= 224 /\ b <= 239 THEN 3
    ELSE IF b >= 240 /\ b <= 244 THEN 4
    ELSE 0

\* The second byte of a sequence, whose range depends on the lead byte.
Second(lead, b) ==
    CASE lead = 224 -> b >= 160 /\ b <= 191
      [] lead = 237 -> b >= 128 /\ b <= 159
      [] lead = 240 -> b >= 144 /\ b <= 191
      [] lead = 244 -> b >= 128 /\ b <= 143
      [] OTHER -> Cont(b)

Utf8Point(s) ==
    CASE Len(s) = 1 -> s[1]
      [] Len(s) = 2 -> (s[1] - 192) * 64 + (s[2] - 128)
      [] Len(s) = 3 -> (s[1] - 224) * 4096 + (s[2] - 128) * 64 + (s[3] - 128)
      [] Len(s) = 4 -> (s[1] - 240) * 262144 + (s[2] - 128) * 4096
                       + (s[3] - 128) * 64 + (s[4] - 128)

\* bytes.decode("utf-8"): the text, or the position of the first byte of the
\* sequence that cannot be decoded.
RECURSIVE DecodeUtf8(_, _, _)
DecodeUtf8(b, i, acc) ==
    IF i > Len(b) THEN [ok |-> TRUE, text |-> acc, bad |-> 0]
    ELSE LET n == Utf8Len(b[i])
         IN IF \/ n = 0
               \/ i + n - 1 > Len(b)
               \/ (n >= 2 /\ ~Second(b[i], b[i + 1]))
               \/ \E k \in 2..(n - 1) : ~Cont(b[i + k])
            THEN [ok |-> FALSE, text |-> acc, bad |-> i]
            ELSE DecodeUtf8(b, i + n, Append(acc, Utf8Point(SubSeq(b, i, i + n - 1))))

\* cp1252 of the bytes 0x80..0x9F; 0 marks the five bytes it leaves undefined.
Cp1252High ==
    <<8364, 0, 8218, 402, 8222, 8230, 8224, 8225, 710, 8240, 352, 8249, 338, 0, 381, 0,
      0, 8216, 8217, 8220, 8221, 8226, 8211, 8212, 732, 8482, 353, 8250, 339, 0, 382, 376>>

Cp1252Point(x) == IF x >= 128 /\ x <= 159 THEN Cp1252High[x - 127] ELSE x

DecodeCp1252(b) ==
    LET undefined == {i \in DOMAIN b : Cp1252Point(b[i]) = 0}
    IN IF undefined = {}
       THEN [ok |-> TRUE, text |-> [i \in DOMAIN b |-> Cp1252Point(b[i])], bad |-> 0]
       ELSE [ok |-> FALSE, text |-> <<>>,
             bad |-> CHOOSE i \in undefined : \A j \in undefined : i <= j]

\* latin1 and ISO-8859-1 are one codec: every byte is its own code point.
Decode(b, enc) ==
    CASE enc = "utf-8" -> DecodeUtf8(b, 1, <<>>)
      [] enc = "cp1252" -> DecodeCp1252(b)
      [] OTHER -> [ok |-> TRUE, text |-> b, bad |-> 0]

\* Text holding no field: read_csv raises EmptyDataError on it.
NoColumns(text) == \A i \in DOMAIN text : text[i] \in {10, 13}

\* pd.read_csv(uploaded_file, encoding=enc) on the bytes left after the read
\* position: the parsed text, UnicodeDecodeError, or EmptyDataError.
read_csv(rest, enc) ==
    LET d == Decode(rest, enc)
    IN IF ~d.ok THEN [status |-> "UnicodeDecodeError", text |-> <<>>, bad |-> d.bad]
       ELSE IF NoColumns(d.text) THEN [status |-> "EmptyDataError", text |-> <<>>, bad |-> 0]
       ELSE [status |-> "table", text |-> d.text, bad |-> 0]

Max(a, b) == IF a >= b THEN a ELSE b

\* The loop of load_data from encoding k on, the stream standing at p.  Only
\* UnicodeDecodeError is caught; nothing rewinds the stream between attempts.
\* A failed read leaves the position at or after the offending byte: at stop
\* when its reader had pulled the stream that far.
RECURSIVE load_data(_, _, _, _)
load_data(b, p, k, stop) ==
    IF k > Len(encodings)
    THEN [status |-> "None", encoding |-> "", text |-> <<>>, pos |-> p, tried |-> k - 1]
    ELSE LET r == read_csv(SubSeq(b, p + 1, Len(b)), encodings[k])
         IN CASE r.status = "table" ->
                   [status |-> "table", encoding |-> encodings[k], text |-> r.text,
                    pos |-> Len(b), tried |-> k]
              [] r.status = "EmptyDataError" ->
                   [status |-> "raised", encoding |-> encodings[k], text |-> <<>>,
                    pos |-> Len(b), tried |-> k]
              [] r.status = "UnicodeDecodeError" ->
                   load_data(b, Max(p + r.bad, stop), k + 1, stop)

Uploads == UNION {[1..n -> Bytes] : n \in 0..MaxBytes}

InitLoad ==
    /\ upload \in Uploads
    /\ pos = 0
    /\ attempts = <<>>
    /\ result = NoResult
    /\ pc = "loading"
    /\ df = [index |-> <<>>, columns |-> <<>>, dtype |-> <<>>, data |-> <<>>]
    /\ loaded = df
    /\ columns = <<>>
    /\ idx = 1
    /\ prev = df
    /\ options = <<>>
    /\ choice = [missing |-> NoChoice, outliers |-> NoChoice, encoding |-> NoChoice]
    /\ applied = <<>>
    /\ warned = FALSE

\* df = load_data(uploaded_file), cleaner.py:121.
Load ==
    /\ pc = "loading"
    /\ result.status = "pending"
    /\ \E stop \in 0..Len(upload) :
         \E r \in {load_data(upload, pos, 1, stop)} :
            /\ result' = [status |-> r.status, encoding |-> r.encoding, text |-> r.text]
            /\ pos' = r.pos
            /\ attempts' = SubSeq(encodings, 1, r.tried)
    /\ UNCHANGED <<upload, cleanVars>>

NextLoad == Load

SpecLoad == InitLoad /\ [][NextLoad]_vars

-----------------------------------------------------------------------------
(* Properties.                                                             *)

\* A clean_column call has been made; LastCol is the column it cleaned.
Called == idx > 1 \/ pc = "crashed"
Returned == idx > 1 /\ pc # "crashed"
LastCol == IF pc = "crashed" THEN columns[idx] ELSE columns[idx - 1]

\* The entries of applied for one block.
Entries(stage) == {k \in DOMAIN applied : applied[k].stage = stage}

Methods ==
    <<"Handle Missing Values", "Remove Duplicates", "Handle Outliers",
      "Standardize Data", "Encode Categorical Data">>
Rank(stage) == CHOOSE i \in DOMAIN Methods : Methods[i] = stage

Numbers(col) == \A i \in DOMAIN col : col[i] = NA \/ Len(col[i]) = 2

Present(col) == {i \in DOMAIN col : col[i] # NA}

\* Position of the row labelled l in the index ix.
PosOf(ix, l) == CHOOSE i \in DOMAIN ix : ix[i] = l

\* C1: clean_column runs the selected methods in the fixed order Handle
\* Missing Values, Remove Duplicates, Handle Outliers, Standardize Data, Encode
\* Categorical Data, whatever the order of the selection: the blocks that ran
\* are the selected ones that apply to the dtype, in that order, and the
\* outlier block reads the column as missing-value and duplicate handling
\* left it, never a standardized one.
FixedStageOrder ==
    Called =>
        /\ \A i, j \in DOMAIN applied :
              i < j => Rank(applied[i].stage) < Rank(applied[j].stage)
        /\ pc # "crashed" =>
              {applied[k].stage : k \in DOMAIN applied}
                  = {m \in Range(options) : Selected(m, prev, LastCol, options)}
        /\ \A k \in Entries("Handle Outliers") :
              LET t1 == IF "Handle Missing Values" \in Range(options)
                        THEN HandleMissingValues(prev, LastCol, choice.missing).df
                        ELSE prev
                  t2 == IF "Remove Duplicates" \in Range(options)
                        THEN RemoveDuplicates(t1, LastCol).df
                        ELSE t1
              IN /\ applied[k].read = t2.data[LastCol]
                 /\ Numbers(applied[k].read)

\* Witness of C1: the user picked Standardize Data, then Handle Outliers, then
\* Handle Missing Values; imputation changed the column and the outlier block,
\* reading the imputed column, changed it again.
FixedStageOrderWitness ==
    /\ Returned
    /\ options = <<"Standardize Data", "Handle Outliers", "Handle Missing Values">>
    /\ Len(applied) = 3
    /\ applied[2].stage = "Handle Outliers"
    /\ applied[2].read # prev.data[LastCol]
    /\ applied[2].wrote # applied[2].read

\* C2 (as claimed): Handle Missing Values with Drop removes every row whose
\* cell in the column is missing, for numeric and for text columns alike, and
\* leaves no missing cell in the column.
DropRemovesMissingRows ==
    \A k \in Entries("Handle Missing Values") :
        choice.missing = "Drop" =>
            /\ Present(applied[k].wrote) = DOMAIN applied[k].wrote
            /\ applied[k].wrote = NonNA(applied[k].read)

\* C3 (as claimed): on a numeric column, all-missing ones included, Handle
\* Missing Values with Mean, Median or Mode leaves no missing cell and the same
\* number of rows.
ImputeLeavesNoMissing ==
    (/\ Called
     /\ "Handle Missing Values" \in Range(options)
     /\ choice.missing \in {"Impute with Mean", "Impute with Median", "Impute with Mode"}
     /\ prev.dtype[LastCol] = "numeric")
    => /\ pc # "crashed"
       /\ \A k \in Entries("Handle Missing Values") :
             /\ Present(applied[k].wrote) = DOMAIN applied[k].wrote
             /\ Len(applied[k].wrote) = Len(applied[k].read)

\* C4 (as claimed): on a numeric column nothing else has transformed, Handle
\* Outliers with Remove deletes exactly the rows detect_issues counts as
\* outliers of the column: the row count drops by that count and no other row
\* goes.
RemoveDeletesDetectedOutliers ==
    (/\ Returned
     /\ idx = 2
     /\ applied # <<>>
     /\ applied[1].stage = "Handle Outliers"
     /\ choice.outliers = "Remove Outliers")
    => LET col == loaded.data[LastCol]
           out == outside(col, Fences(col))
       IN /\ applied[1].wrote = SelectPos(col, DOMAIN col \ out)
          /\ Len(applied[1].wrote) = Rows(loaded) - detect_issues(loaded)[LastCol].outliers

\* C5: Handle Outliers with Cap leaves every value of the column within
\* [Q1 - 1.5 IQR, Q3 + 1.5 IQR], the fences of the column as it stood before
\* capping: a value below the lower fence becomes the lower fence, a value
\* above the upper fence becomes the upper fence, a value within them is
\* unchanged, a missing cell stays missing, and no row is removed.
CapClipsToFences ==
    \A k \in Entries("Handle Outliers") :
        choice.outliers = "Cap Outliers" =>
            LET r == applied[k].read
                w == applied[k].wrote
                f == Fences(r)
            IN /\ Len(w) = Len(r)
               /\ Returned => Rows(df) = Len(r)
               /\ \A i \in DOMAIN r :
                     IF r[i] = NA THEN w[i] = NA
                     ELSE /\ RLeq(f.lower, w[i]) /\ RLeq(w[i], f.upper)
                          /\ RLess(r[i], f.lower) => w[i] = f.lower
                          /\ RLess(f.upper, r[i]) => w[i] = f.upper
                          /\ (RLeq(f.lower, r[i]) /\ RLeq(r[i], f.upper)) => w[i] = r[i]

\* Witness of C5: a Cap that raised a value below the lower fence to the fence
\* and left the other values alone.
CapClipsToFencesWitness ==
    /\ Returned
    /\ choice.outliers = "Cap Outliers"
    /\ \E k \in Entries("Handle Outliers") :
          LET r == applied[k].read
              w == applied[k].wrote
          IN /\ \E i \in Present(r) : RLess(r[i], Fences(r).lower) /\ w[i] = Fences(r).lower
             /\ \E i \in Present(r) : w[i] = r[i]

\* C6: Remove Duplicates keeps, for each distinct value of the column, the row
\* of its first occurrence and no other, in every column, and removing the
\* duplicates of the result again changes nothing.
RemoveDuplicatesKeepsFirst ==
    (Returned /\ Range(options) = {"Remove Duplicates"}) =>
        LET col == prev.data[LastCol]
            firsts == {i \in DOMAIN col : \A j \in 1..(i - 1) : col[j] # col[i]}
        IN /\ df.index = SelectPos(prev.index, firsts)
           /\ \A n \in DOMAIN prev.data : df.data[n] = SelectPos(prev.data[n], firsts)
           /\ RemoveDuplicates(df, LastCol).df = df

\* Witness of C6: Remove Duplicates deleted a row and kept at least two.
RemoveDuplicatesKeepsFirstWitness ==
    /\ Returned
    /\ Range(options) = {"Remove Duplicates"}
    /\ Rows(df) < Rows(prev)
    /\ Rows(df) >= 2

\* The first encoding whose parse of the whole stream succeeds, 0 when none.
FirstParse ==
    LET ok == {k \in DOMAIN encodings : read_csv(upload, encodings[k]).status = "table"}
    IN IF ok = {} THEN 0 ELSE CHOOSE k \in ok : \A j \in ok : k <= j

\* C7 (as claimed): load_data returns the table of the first of utf-8, latin1,
\* ISO-8859-1, cp1252 under which the whole uploaded stream parses, and returns
\* None, without raising, when the stream decodes under none of them.
LoadReturnsFirstParse ==
    result.status # "pending" =>
        /\ FirstParse # 0 =>
              result = [status |-> "table",
                        encoding |-> encodings[FirstParse],
                        text |-> read_csv(upload, encodings[FirstParse]).text]
        /\ (\A k \in DOMAIN encodings :
               read_csv(upload, encodings[k]).status = "UnicodeDecodeError")
              => result.status = "None"

\* C8 (as claimed): an error raised while cleaning one column does not keep
\* the later columns from being cleaned.
ErrorDoesNotBlockLaterColumns == ~(pc = "crashed" /\ idx < Len(columns))

\* The column One-Hot Encoding read, its distinct values, and the columns the
\* call added.
EncodedColumn == applied[CHOOSE k \in DOMAIN applied :
                            applied[k].stage = "Encode Categorical Data"].read
DistinctValues(col) == {col[i][1] : i \in Present(col)}
AddedColumns == Range(df.columns) \ Range(prev.columns)

\* What One-Hot Encoding does whatever the number of new columns: the encoded
\* column leaves, the others stay, each new column is boolean, is named
\* <column>_<value> and marks the rows holding the value, and no row goes.
OneHotShape ==
    /\ LastCol \notin Range(df.columns)
    /\ Range(df.columns) \cap Range(prev.columns) = Range(prev.columns) \ {LastCol}
    /\ Rows(df) = Len(EncodedColumn)
    /\ \A n \in AddedColumns :
          /\ df.dtype[n] = "bool"
          /\ \E v \in DistinctValues(EncodedColumn) :
                /\ n = LastCol \o "_" \o v
                /\ df.data[n] = [i \in DOMAIN EncodedColumn |-> <<EncodedColumn[i] = <<v>>>>]

\* C9 (as claimed): One-Hot Encoding of a text column with K distinct values
\* removes the column and adds exactly K - 1 boolean columns named by the
\* column name joined with the value; the row count is unchanged.
OneHotAddsKMinusOne ==
    (Returned /\ choice.encoding = "One-Hot Encoding") =>
        /\ OneHotShape
        /\ Cardinality(AddedColumns) = Cardinality(DistinctValues(EncodedColumn)) - 1

\* C9 (amended): with K >= 1 distinct non-missing values One-Hot Encoding
\* removes the column and adds exactly K - 1 boolean columns named
\* <column>_<value>; with no non-missing value it removes the column and adds
\* none; the row count is unchanged.
OneHotAddsAllButOne ==
    (Returned /\ choice.encoding = "One-Hot Encoding") =>
        /\ OneHotShape
        /\ Cardinality(AddedColumns)
              = IF DistinctValues(EncodedColumn) = {} THEN 0
                ELSE Cardinality(DistinctValues(EncodedColumn)) - 1

\* Witness of C9: a column with three distinct values became two columns.
OneHotAddsAllButOneWitness ==
    /\ Returned
    /\ choice.encoding = "One-Hot Encoding"
    /\ Cardinality(DistinctValues(EncodedColumn)) = 3
    /\ Cardinality(AddedColumns) = 2

\* C10: after any sequence of clean_column calls every column has as many
\* cells as the table has rows, the rows are rows of the loaded table in their
\* original order, the last call left the cells of every other column in the
\* surviving rows as they were, and a column not cleaned yet holds, in each
\* surviving row, the cell it was loaded with.
FramePreserved ==
    /\ DOMAIN df.data = Range(df.columns)
    /\ \A n \in DOMAIN df.data : Len(df.data[n]) = Len(df.index)
    /\ Range(df.index) \subseteq Range(loaded.index)
    /\ \A i, j \in DOMAIN df.index : i < j => df.index[i] < df.index[j]
    /\ Called =>
          \A n \in DOMAIN prev.data \ {LastCol} :
              /\ n \in DOMAIN df.data
              /\ \A i \in DOMAIN df.index :
                    df.data[n][i] = prev.data[n][PosOf(prev.index, df.index[i])]
    /\ \A k \in DOMAIN columns :
          (k > idx \/ (k = idx /\ pc # "crashed")) =>
              \A i \in DOMAIN df.index :
                  df.data[columns[k]][i] = loaded.data[columns[k]][df.index[i] + 1]

\* Witness of C10: both columns of a two-column table were cleaned, rows were
\* deleted and rows survive.
FramePreservedWitness ==
    /\ pc = "cleaning"
    /\ Len(columns) = 2
    /\ idx = 3
    /\ Rows(df) < Rows(loaded)
    /\ Rows(df) >= 1

====
